---- MODULE Spec2Model ----
(***************************************************************************)
(* ubw: an HTTP load generator.  The model covers the request engine of    *)
(* src/src/client.rs (send_request_with_reuse), the atomic response        *)
(* counters and the reporter of src/src/work_mode.rs, and the orchestration*)
(* and shutdown latch (a tokio watch channel) of src/src/main.rs and       *)
(* src/src/before_request.rs.                                              *)
(*                                                                         *)
(* client::request_loop (called at main.rs:70) and the ConnectionPool of   *)
(* spec.md 4.1 have no source under src/; their actions are written from   *)
(* spec.md (sections 2, 4.1, 4.4) and are marked so where they are defined.*)
(***************************************************************************)
EXTENDS Integers, Sequences, FiniteSets, TLC

\* ------------------------------------------------------------------ bounds
\* number of worker tasks of a concurrent run (opts.concurrent, main.rs:53)
MaxWorkers == 2
\* calls of send_request_with_reuse a concurrent run is followed for
MaxCalls == 2
\* calls of send_request_with_reuse a run of one worker is followed for
SoloCalls == 4
\* calls the whole program, with its reporter ticking, is followed for
FewCalls == 2
\* opts.rs:15: the default of -c
DefaultConcurrent == 1
\* configured capacity of the connection pool (spec.md 3)
PoolCapacity == 1
\* calls a run of concurrent workers sharing the pool is followed for
PoolCalls == 3

\* Option::None for a handle
NoConn == 0

\* ------------------------------------------------------- response classes
\* enum ClientResponseCodeType (work_mode.rs:43-50)
ClientResponseCodeType == {"Code2", "Code3", "Code4", "Code5", "Failure"}

\* the order in which counter_print reads and resets (work_mode.rs:99-109)
ClassOrder == <<"Code2", "Code3", "Code4", "Code5", "Failure">>

\* status codes the target answers with: one per class, and one outside 200..599
StatusSamples == {200, 301, 404, 503, 600}

\* spec.md 8: a target that always answers 503
Always503 == {503}

\* WorkInstance::status_to_code_type (client.rs:112-120), on a u16
status_to_code_type_exclusive(status) ==
    IF status >= 200 /\ status < 299 THEN "Code2"
    ELSE IF status >= 300 /\ status < 399 THEN "Code3"
    ELSE IF status >= 400 /\ status < 499 THEN "Code4"
    ELSE IF status >= 500 /\ status < 599 THEN "Code5"
    ELSE "Failure"

status_to_code_type(status) ==
    IF status >= 200 /\ status <= 299 THEN "Code2"
    ELSE IF status >= 300 /\ status <= 399 THEN "Code3"
    ELSE IF status >= 400 /\ status <= 499 THEN "Code4"
    ELSE IF status >= 500 /\ status <= 599 THEN "Code5"
    ELSE "Failure"

\* u16::MAX: the largest value StatusCode::as_u16 can return (client.rs:113)
MaxStatus == 65535

\* -------------------------------------------------------- work preparation
\* bounds: the longest header list, and the longest POST body, that are tried
MaxHeaders == 2
MaxBody == 2

\* hyper::Method values given to -X (opts.rs:27-28)
Methods == {"GET", "POST", "PUT"}

\* -H items (opts.rs:52-56): a Host, a Content-Length, an extension header, a
\* name that is no HeaderName, a value that is no HeaderValue
HeaderSamples ==
    { <<"Host", "other.example">>,
      <<"Content-Length", "9">>,
      <<"X-Id", "1">>,
      <<"X Id", "1">>,
      <<"X-Id", "\n">> }

\* str::parse::<HeaderName> (opts.rs:90): fails on a byte that is no token
\* character, and normalises the name to lower case
ParseHeaderName(name) ==
    CASE name = "Host" -> [ok |-> TRUE, name |-> "host"]
      [] name = "Content-Length" -> [ok |-> TRUE, name |-> "content-length"]
      [] name = "X-Id" -> [ok |-> TRUE, name |-> "x-id"]
      [] OTHER -> [ok |-> FALSE, name |-> name]

\* str::parse::<HeaderValue> (opts.rs:91): fails on a control character
ParseHeaderValue(value) == value # "\n"

\* HeaderMap::insert (opts.rs:96): the value replaces the one the name had
HeaderInsert(map, name, value) ==
    {h \in map : h[1] # name} \cup {<<name, value>>}

\* WrappedHeaderMap::try_from (opts.rs:82-99): the items in order; the first
\* that does not parse ends the fold with its error
RECURSIVE TryFold(_, _)
TryFold(acc, items) ==
    IF items = <<>> THEN [tag |-> "Ok", map |-> acc]
    ELSE LET name == ParseHeaderName(Head(items)[1])
         IN IF ~name.ok THEN [tag |-> "InvalidHeaderList", map |-> {}]
            ELSE IF ~ParseHeaderValue(Head(items)[2])
            THEN [tag |-> "InvalidHeaderList", map |-> {}]
            ELSE TryFold(HeaderInsert(acc, name.name, Head(items)[2]),
                         Tail(items))

try_from(value) == TryFold({}, value)

\* Option::or (before_request.rs:51, 70)
OptionOr(a, b) == IF a # "None" THEN a ELSE b

\* before_request.rs:41-69: `resolve`, or the error the match returns with.
\* resolve_ipv6 / resolve_ipv4 (before_request.rs:14-37) answer "Err", "None"
\* or an address
Resolve(o, e) ==
    CASE o.url_host = "Domain" ->
            IF o.ipv6
            THEN IF e.dns6 = "Err" THEN "FailedToResolveDns"
                 ELSE IF o.ipv4
                 THEN IF e.dns4 = "Err" THEN "FailedToResolveDns"
                      ELSE OptionOr(e.dns6, e.dns4)
                 ELSE e.dns6
            ELSE IF o.ipv4
            THEN IF e.dns4 = "Err" THEN "FailedToResolveDns" ELSE e.dns4
            ELSE "None"
      [] o.url_host = "Ipv4" /\ o.ipv4 -> "V4"
      [] o.url_host = "Ipv6" /\ o.ipv6 -> "V6"
      [] o.url_host = "None" -> "None"
      [] OTHER -> "NoWayToResolveHost"

\* the mode of a GET
NoBody == <<>>

\* before_request.rs:76-91: `work_mode`, or the error the match returns with.
\* A body source is "None" or the bytes it holds; the file read answers "Err"
\* or the bytes of the file
WorkMode(o, e) ==
    CASE o.method = "GET" ->
            [tag |-> "Ok", mode |-> "Get", body |-> NoBody]
      [] o.method = "POST" /\ o.body_string # "None" /\ o.body_file = "None" ->
            [tag |-> "Ok", mode |-> "Post", body |-> o.body_string]
      [] o.method = "POST" /\ o.body_string = "None" /\ o.body_file # "None" ->
            IF e.file = "Err"
            THEN [tag |-> "FailedToReadBodyFromFile", mode |-> "none",
                  body |-> NoBody]
            ELSE [tag |-> "Ok", mode |-> "Post", body |-> e.file]
      [] o.method = "POST" ->
            [tag |-> "RequirePostBody", mode |-> "none", body |-> NoBody]
      [] OTHER ->
            [tag |-> "UnsupportedMethod", mode |-> "none", body |-> NoBody]

\* Result::Err of prepare_work_instance
PrepErr(t) ==
    [tag |-> t, mode |-> "none", body |-> NoBody, content_type |-> "None",
     header_map |-> {}]

\* work before main.rs:60
NoWork == PrepErr("none")

PrepErrors ==
    {"FailedToResolveDns", "NoWayToResolveHost", "WeirdUrl",
     "FailedToReadBodyFromFile", "RequirePostBody", "UnsupportedMethod",
     "InvalidHeaderList"}

\* prepare_work_instance (before_request.rs:39-103): each step returns with
\* its error before the next is taken
prepare_work_instance(o, e) ==
    LET resolve == Resolve(o, e)
        address == OptionOr(resolve, o.host)
        work_mode == WorkMode(o, e)
        header_map == try_from(o.header)
    IN IF resolve \in PrepErrors THEN PrepErr(resolve)
       ELSE IF address = "None" THEN PrepErr("NoWayToResolveHost")
       ELSE IF ~o.url_port THEN PrepErr("WeirdUrl")
       ELSE IF work_mode.tag # "Ok" THEN PrepErr(work_mode.tag)
       ELSE IF header_map.tag # "Ok" THEN PrepErr(header_map.tag)
       ELSE [tag |-> "Ok", mode |-> work_mode.mode, body |-> work_mode.body,
             content_type |-> o.content_type, header_map |-> header_map.map]

\* the header names a request can carry
HeaderNames == {"host", "content-length", "content-type", "x-id"}

\* request::Builder::header (client.rs:96, 102, 104): the value is appended to
\* the values the name already has
BuilderHeader(headers, name, value) ==
    [headers EXCEPT ![name] = Append(@, value)]

\* client.rs:95-97: every header of header_map is given to the builder
FromHeaderMap(map) ==
    [n \in HeaderNames |->
        IF \E h \in map : h[1] = n
        THEN <<(CHOOSE h \in map : h[1] = n)[2]>>
        ELSE <<>>]

\* request before build_request is called
NoRequest == [tag |-> "none", method |-> "none", headers |-> FromHeaderMap({}),
              body |-> NoBody]

\* WorkInstance::build_request (client.rs:89-109), WorkMode::method
\* (work_mode.rs:17-22)
build_request(w) ==
    LET builder == FromHeaderMap(w.header_map)
    IN IF w.mode = "Get"
       THEN [tag |-> "Ok", method |-> "GET", headers |-> builder,
             body |-> NoBody]
       ELSE LET length == BuilderHeader(builder, "content-length",
                                        ToString(Len(w.body)))
                typed == IF w.content_type # "None"
                         THEN BuilderHeader(length, "content-type",
                                            w.content_type)
                         ELSE length
            IN [tag |-> "Ok", method |-> "POST", headers |-> typed,
                body |-> w.body]

\* header lists of at most n items
RECURSIVE HeaderLists(_)
HeaderLists(n) ==
    IF n = 0 THEN {<<>>}
    ELSE HeaderLists(n - 1)
            \cup {Append(l, h) : l \in HeaderLists(n - 1), h \in HeaderSamples}

\* bodies of at most n bytes
RECURSIVE Bodies(_)
Bodies(n) ==
    IF n = 0 THEN {<<>>}
    ELSE Bodies(n - 1) \cup {Append(b, 97) : b \in Bodies(n - 1)}

\* `ubw -u <url>`: a GET of a domain over both families
DefaultOpts ==
    [url_host |-> "Domain", url_port |-> TRUE, ipv4 |-> TRUE, ipv6 |-> TRUE,
     host |-> "None", method |-> "GET", body_string |-> "None",
     body_file |-> "None", content_type |-> "None", header |-> <<>>]

\* `ubw -u <url> -X POST -d a`
PostOpts == [DefaultOpts EXCEPT !.method = "POST", !.body_string = <<97>>]

\* a network in which the domain resolves in both families
DefaultEnv == [dns6 |-> "V6", dns4 |-> "V4", file |-> "Err"]

\* header lists preparation is tried on: none, and each sample alone
PrepHeaderLists == {<<>>} \cup {<<h>> : h \in HeaderSamples}

\* command lines preparation is tried on: every kind of URL host, with and
\* without a known port, either family switched on or off, with and without
\* -i, every method, with and without -d and -D
PrepOpts ==
    [url_host : {"Domain", "Ipv4", "Ipv6", "None"},
     url_port : BOOLEAN,
     ipv4 : BOOLEAN,
     ipv6 : BOOLEAN,
     host : {"None", "V4"},
     method : Methods,
     body_string : {"None", <<97>>},
     body_file : {"None", "path"},
     content_type : {"None"},
     header : PrepHeaderLists]

\* command lines that differ in the request they ask for: a GET, or a POST of
\* a literal body, with or without -T, and a header list
BuildOpts ==
    {[DefaultOpts EXCEPT !.method = m[1], !.body_string = m[2],
                         !.content_type = t, !.header = l] :
        m \in {<<"GET", "None">>} \cup {<<"POST", b>> : b \in Bodies(MaxBody)},
        t \in {"None", "text/plain"},
        l \in HeaderLists(MaxHeaders)}

\* what the network and the file system answer: each lookup fails, finds no
\* address of the family, or finds one; the file is unreadable, or read
PrepEnvs ==
    [dns6 : {"Err", "None", "V6"},
     dns4 : {"Err", "None", "V4"},
     file : {"Err", <<97, 97>>}]

\* --------------------------------------------------------------- variables
VARIABLES
    concurrent, \* opts.concurrent (main.rs:53): the number of worker tasks
    budget,     \* number of calls the run is followed for
    target,     \* the status codes the target answers with
    latch,      \* value held by the watch channel (main.rs:62)
    version,    \* number of values sent on the watch channel
    wseen,      \* per worker: channel version its receiver has marked seen
    rseen,      \* the reporter's receiver
    mseen,      \* the receiver main clones at main.rs:98
    timer,      \* the duration task (main.rs:87-95): "none", "armed", "fired"
    sig,        \* handle_shutdown_signals (main.rs:108-154): "waiting", "fired"
    mpc,        \* main: "spawned", "wait", "join", "done"
    pc,         \* per worker: position in request_loop / send_request_with_reuse
    handle,     \* per worker: the SendRequest it holds (NoConn for None)
    existing,   \* per worker: existing_send_request the current call was given
    result,     \* per worker: ClientResult of the last call
    attempts,   \* per worker: connection attempts made by the current call
    callIncs,   \* per worker: counter increments made by the current call
    slept,      \* per worker: milliseconds the current call has slept
    calls,      \* number of calls started so far
    https,      \* url.scheme() == "https"
    buildOk,    \* whether build_request succeeds for this WorkInstance
    connState,  \* per handle: "unused", "open", "undrained", "dropped"
    uses,       \* per handle: requests answered on it
    nextConn,   \* next handle number
    pool,       \* ConnectionPool: sequence of idle handles
    counter,    \* RequestCounter: class -> value
    incs,       \* history: class -> increments performed by workers
    printed,    \* history: class -> sum of the values printed by the reporter
    rpc,        \* reporter: "select", "get", "reset", "exited"
    ridx,       \* reporter: index into ClassOrder of the next get / reset
    rsel,       \* reporter: channel version when its pending select! began
    snapshot,   \* reporter: the values read for the line being printed
    sinceReset, \* history: class -> increments since the class was last reset
    as_u16,     \* status.as_u16() of a StatusCode given to status_to_code_type
    code_type,  \* the class status_to_code_type returned for it
    opts,       \* opts::Opts, as parsed from the command line (main.rs:51)
    env,        \* what the lookups and the file read of preparation answer
    work,       \* the result of prepare_work_instance (main.rs:60)
    request     \* the result of build_request for work

chanVars == <<latch, version, wseen, rseen, mseen, timer, sig>>
workerVars == <<pc, handle, existing, result, attempts, callIncs, calls,
                slept>>
connVars == <<connState, uses, nextConn, pool>>
counterVars == <<counter, incs, sinceReset>>
reporterVars == <<printed, rpc, ridx, rsel, snapshot>>

Workers == 1..concurrent
\* connection handles are numbered in the order they are established; a call
\* establishes at most one
Conns == 1..budget

\* what a run is given and what is computed from it before the tasks start
prepVars == <<as_u16, code_type, opts, env, work, request>>

config == <<concurrent, budget, target, https, buildOk, prepVars>>
vars == <<concurrent, budget, target, latch, version, wseen, rseen, mseen,
          timer, sig, mpc, pc, handle, existing, result, attempts, callIncs,
          slept, calls, https, buildOk,
          connState, uses, nextConn, pool, counter, incs, printed, rpc, ridx,
          rsel, snapshot, sinceReset, as_u16, code_type, opts, env, work,
          request>>

Zero == [c \in ClientResponseCodeType |-> 0]

NoResult == [tag |-> "none", code |-> "none"]
Code(c) == [tag |-> "Code", code |-> c]
Err(t) == [tag |-> t, code |-> "none"]

\* ------------------------------------------------------------ watch channel
\* tokio::sync::watch::channel(false) (main.rs:62): the version the original
\* receiver, and every clone of it, has seen before any send
InitialVersion == 0

\* Receiver::changed() is ready iff the channel's version differs from the one
\* the receiver has marked seen (work_mode.rs:111, main.rs:98)
HasChanged(seen) == seen # version

\* Sender::send(true) (before_request.rs:110, main.rs:151): stores the value and
\* advances the version, whatever the value stored before
WatchSendToggle(v) ==
    /\ latch' = ~latch
    /\ version' = version + 1

WatchSend(v) ==
    /\ latch' = v
    /\ version' = version + 1

\* ----------------------------------------------------------- RequestCounter
\* RequestCounter::inc (work_mode.rs:57-66): fetch_add(1)
inc(ctr, c) == [ctr EXCEPT ![c] = @ + 1]

\* RequestCounter::get (work_mode.rs:68-77): load
get(ctr, c) == ctr[c]

\* RequestCounter::reset (work_mode.rs:79-88): store(0)
reset_other(ctr, c) == [ctr EXCEPT ![ClassOrder[1]] = 0]

reset(ctr, c) == [ctr EXCEPT ![c] = 0]

\* one increment by worker w: the shared counter, and the histories
Count(w, c) ==
    /\ counter' = inc(counter, c)
    /\ incs' = [incs EXCEPT ![c] = @ + 1]
    /\ sinceReset' = [sinceReset EXCEPT ![c] = @ + 1]
    /\ callIncs' = [callIncs EXCEPT ![w] = inc(@, c)]

\* ----------------------------------------------------------------- Init
\* the state at main.rs:97: prepare_work_instance has succeeded, the workers,
\* the reporter and the trigger tasks are spawned
Spawned(n, b) ==
    /\ concurrent = n
    /\ budget = b
    /\ latch = FALSE
    /\ version = InitialVersion
    /\ wseen = [w \in Workers |-> InitialVersion]
    /\ rseen = InitialVersion
    /\ mseen = InitialVersion
    /\ sig = "waiting"
    /\ mpc = "spawned"
    /\ pc = [w \in Workers |-> "loop"]
    /\ handle = [w \in Workers |-> NoConn]
    /\ existing = [w \in Workers |-> NoConn]
    /\ result = [w \in Workers |-> NoResult]
    /\ attempts = [w \in Workers |-> 0]
    /\ slept = [w \in Workers |-> 0]
    /\ callIncs = [w \in Workers |-> Zero]
    /\ calls = 0
    /\ connState = [h \in Conns |-> "unused"]
    /\ uses = [h \in Conns |-> 0]
    /\ nextConn = 1
    /\ pool = <<>>
    /\ counter = Zero
    /\ incs = Zero
    /\ printed = Zero
    /\ rpc = "select"
    /\ ridx = 1
    /\ rsel = InitialVersion
    /\ snapshot = Zero
    /\ sinceReset = Zero

\* the run of the default command line: its preparation has succeeded, the
\* request is built by each call
Prepared ==
    /\ opts = DefaultOpts
    /\ env = DefaultEnv
    /\ work = prepare_work_instance(DefaultOpts, DefaultEnv)
    /\ request = NoRequest

\* no status has been classified
Unclassified ==
    /\ as_u16 = 0
    /\ code_type = "none"

Setup(n, b) ==
    /\ Spawned(n, b)
    /\ Prepared
    /\ Unclassified

\* the whole program, one worker: the reporter, both triggers, main.  A run
\* without a duration (opts.max_time = None) is a run whose timer never fires.
Init ==
    /\ Setup(DefaultConcurrent, FewCalls)
    /\ timer = "armed"
    /\ https \in BOOLEAN
    /\ buildOk = TRUE
    /\ target = Always503

\* the whole program, one worker, an https URL
InitHttps ==
    /\ Setup(DefaultConcurrent, FewCalls)
    /\ timer = "armed"
    /\ https = TRUE
    /\ buildOk = TRUE
    /\ target = Always503

\* a run of one worker against a target that answers with any status
InitSolo ==
    /\ Setup(DefaultConcurrent, SoloCalls)
    /\ timer = "none"
    /\ https \in BOOLEAN
    /\ buildOk \in BOOLEAN
    /\ target = StatusSamples

\* concurrent workers, an https URL (every step of a connection is taken)
InitConcurrent ==
    /\ Setup(MaxWorkers, MaxCalls)
    /\ timer = "armed"
    /\ https = TRUE
    /\ buildOk = TRUE
    /\ target = Always503

\* concurrent workers and a pool with fewer slots than workers
InitPool ==
    /\ Setup(MaxWorkers, PoolCalls)
    /\ timer = "none"
    /\ https = TRUE
    /\ buildOk = TRUE
    /\ target = Always503

\* main has parsed its command line (main.rs:51); nothing is prepared, no task
\* is spawned
Unspawned ==
    /\ concurrent = MaxWorkers
    /\ budget = FewCalls
    /\ latch = FALSE
    /\ version = InitialVersion
    /\ wseen = [w \in Workers |-> InitialVersion]
    /\ rseen = InitialVersion
    /\ mseen = InitialVersion
    /\ sig = "unspawned"
    /\ timer = "unspawned"
    /\ mpc = "start"
    /\ pc = [w \in Workers |-> "unspawned"]
    /\ handle = [w \in Workers |-> NoConn]
    /\ existing = [w \in Workers |-> NoConn]
    /\ result = [w \in Workers |-> NoResult]
    /\ attempts = [w \in Workers |-> 0]
    /\ slept = [w \in Workers |-> 0]
    /\ callIncs = [w \in Workers |-> Zero]
    /\ calls = 0
    /\ connState = [h \in Conns |-> "unused"]
    /\ uses = [h \in Conns |-> 0]
    /\ nextConn = 1
    /\ pool = <<>>
    /\ counter = Zero
    /\ incs = Zero
    /\ printed = Zero
    /\ rpc = "unspawned"
    /\ ridx = 1
    /\ rsel = InitialVersion
    /\ snapshot = Zero
    /\ sinceReset = Zero
    /\ https = TRUE
    /\ buildOk = TRUE
    /\ target = Always503
    /\ Unclassified
    /\ work = NoWork
    /\ request = NoRequest

\* preparation on every command line and every answer of the environment
InitPrep ==
    /\ Unspawned
    /\ opts \in PrepOpts
    /\ env \in PrepEnvs

\* preparation, then build_request, on every request a command line asks for
InitBuild ==
    /\ Unspawned
    /\ opts \in BuildOpts
    /\ env = DefaultEnv

\* every status code a response can be asked for, under either method
InitClassify ==
    /\ Spawned(DefaultConcurrent, FewCalls)
    /\ timer = "none"
    /\ https = TRUE
    /\ buildOk = TRUE
    /\ target = Always503
    /\ opts \in {DefaultOpts, PostOpts}
    /\ env = DefaultEnv
    /\ work = prepare_work_instance(opts, env)
    /\ request = NoRequest
    /\ as_u16 \in 0..MaxStatus
    /\ code_type = "none"

\* the process lives until main returns (main.rs:105)
Running == mpc # "done"

\* ------------------------------------------------------------ ConnectionPool
\* spec.md 4.1 try_get: an idle handle if present, else none; never blocks
try_get == IF pool = <<>> THEN NoConn ELSE Head(pool)

\* spec.md 4.1 put: pushes the handle; at capacity, closes and discards it
PoolOverFull == Len(pool) > PoolCapacity

PoolFull == Len(pool) >= PoolCapacity

put(h) ==
    IF PoolFull
    THEN /\ pool' = pool
         /\ connState' = [connState EXCEPT ![h] = "dropped"]
    ELSE /\ pool' = Append(pool, h)
         /\ connState' = connState

\* ------------------------------------------------------------- request_loop
\* spec.md 4.4: the worker is between two request cycles
AnyAwaitPoint(w) == pc[w] # "exited"

AtLoopTop(w) == pc[w] = "loop"

\* spec.md 4.4: the latch has fired and the worker exits without starting a
\* new attempt
WorkerObserveAndContinue(w) ==
    /\ AtLoopTop(w)
    /\ HasChanged(wseen[w])
    /\ wseen' = [wseen EXCEPT ![w] = version]
    /\ UNCHANGED <<latch, version, rseen, mseen, timer, sig, mpc, workerVars,
                   config, connVars, counterVars, reporterVars>>

WorkerObserveShutdown(w) ==
    /\ AtLoopTop(w)
    /\ HasChanged(wseen[w])
    /\ wseen' = [wseen EXCEPT ![w] = version]
    /\ pc' = [pc EXCEPT ![w] = "exited"]
    /\ UNCHANGED <<latch, version, rseen, mseen, timer, sig, mpc, handle,
                   existing, result, attempts, slept, callIncs, calls, config,
                   connVars, counterVars, reporterVars>>

\* spec.md 2, 4.1: the worker asks the pool for an idle handle and starts one
\* RequestSender call with it (or with none)
WorkerAcquire(w) ==
    /\ AtLoopTop(w)
    /\ ~HasChanged(wseen[w])
    /\ calls < budget
    /\ handle' = [handle EXCEPT ![w] = try_get]
    /\ existing' = [existing EXCEPT ![w] = try_get]
    /\ pool' = IF pool = <<>> THEN pool ELSE Tail(pool)
    /\ result' = [result EXCEPT ![w] = NoResult]
    /\ attempts' = [attempts EXCEPT ![w] = 0]
    /\ slept' = [slept EXCEPT ![w] = 0]
    /\ callIncs' = [callIncs EXCEPT ![w] = Zero]
    /\ calls' = calls + 1
    /\ pc' = [pc EXCEPT ![w] = "build"]
    /\ UNCHANGED <<chanVars, mpc, config, connState, uses, nextConn,
                   counterVars, reporterVars>>

\* spec.md 2: the call has returned; a residual handle goes back to the pool
WorkerReleaseKeep(w) ==
    /\ pc[w] = "returned"
    /\ IF handle[w] = NoConn
       THEN UNCHANGED <<pool, connState>>
       ELSE put(handle[w])
    /\ pc' = [pc EXCEPT ![w] = "loop"]
    /\ UNCHANGED <<chanVars, mpc, handle, existing, result, attempts, slept, callIncs,
                   calls, config, uses, nextConn, counterVars, reporterVars>>

WorkerRelease(w) ==
    /\ pc[w] = "returned"
    /\ IF handle[w] = NoConn
       THEN UNCHANGED <<pool, connState>>
       ELSE put(handle[w])
    /\ handle' = [handle EXCEPT ![w] = NoConn]
    /\ pc' = [pc EXCEPT ![w] = "loop"]
    /\ UNCHANGED <<chanVars, mpc, existing, result, attempts, slept, callIncs, calls,
                   config, uses, nextConn, counterVars, reporterVars>>

\* ------------------------------------------------- send_request_with_reuse
\* return (result, _, None): the handle the call holds, if any, is dropped
ReturnNonePanic(w, r) ==
    /\ result' = [result EXCEPT ![w] = r]
    /\ handle' = [handle EXCEPT ![w] = NoConn]
    /\ connState' = IF handle[w] = NoConn THEN connState
                    ELSE [connState EXCEPT ![handle[w]] = "dropped"]
    /\ pc' = [pc EXCEPT ![w] = "exited"]

ReturnKept(w, r) ==
    /\ result' = [result EXCEPT ![w] = r]
    /\ pc' = [pc EXCEPT ![w] = "returned"]
    /\ UNCHANGED <<handle, connState>>

ReturnNone(w, r) ==
    /\ result' = [result EXCEPT ![w] = r]
    /\ handle' = [handle EXCEPT ![w] = NoConn]
    /\ connState' = IF handle[w] = NoConn THEN connState
                    ELSE [connState EXCEPT ![handle[w]] = "dropped"]
    /\ pc' = [pc EXCEPT ![w] = "returned"]

\* client.rs:207-213: build_request, then the branch on existing_send_request
BuildNoFallThrough(w) ==
    /\ pc[w] = "build"
    /\ IF buildOk /\ handle[w] # NoConn
       THEN /\ pc' = [pc EXCEPT ![w] = "send_existing"]
            /\ UNCHANGED <<result, handle, connState>>
       ELSE ReturnNone(w, Err("HttpError"))
    /\ UNCHANGED <<chanVars, mpc, existing, attempts, slept, callIncs, calls, config,
                   uses, nextConn, pool, counterVars, reporterVars>>

Build(w) ==
    /\ pc[w] = "build"
    /\ IF buildOk
       THEN /\ pc' = [pc EXCEPT ![w] =
                        IF handle[w] # NoConn THEN "send_existing" ELSE "connect"]
            /\ UNCHANGED <<result, handle, connState>>
       ELSE ReturnNone(w, Err("HttpError"))
    /\ UNCHANGED <<chanVars, mpc, existing, attempts, slept, callIncs, calls, config,
                   uses, nextConn, pool, counterVars, reporterVars>>

\* client.rs:213-230: the request is sent on the existing handle
SendExisting(w) ==
    /\ pc[w] = "send_existing"
    /\ \/ \E status \in target :
            /\ Count(w, status_to_code_type(status))
            /\ result' = [result EXCEPT ![w] = Code(status_to_code_type(status))]
            /\ uses' = [uses EXCEPT ![handle[w]] = @ + 1]
            /\ pc' = [pc EXCEPT ![w] = "collect"]
            /\ UNCHANGED <<handle, connState>>
       \/ /\ Count(w, "Failure")
          /\ ReturnNone(w, Err("ConnectionClosed"))
          /\ UNCHANGED uses
    /\ UNCHANGED <<chanVars, mpc, existing, attempts, slept, calls, config,
                   nextConn, pool, reporterVars>>

\* client.rs:233-239 (connect, client.rs:73-76): a TCP stream, or an I/O error
ConnectNoTls(w) ==
    /\ pc[w] = "connect"
    /\ attempts' = [attempts EXCEPT ![w] = @ + 1]
    /\ UNCHANGED slept
    /\ \/ /\ handle' = [handle EXCEPT ![w] = nextConn]
          /\ connState' = [connState EXCEPT ![nextConn] = "stream"]
          /\ nextConn' = nextConn + 1
          /\ pc' = [pc EXCEPT ![w] = "handshake"]
          /\ UNCHANGED <<result, counterVars, callIncs>>
       \/ /\ Count(w, "Failure")
          /\ ReturnNone(w, Err("IoError"))
          /\ UNCHANGED nextConn
    /\ UNCHANGED <<chanVars, mpc, existing, calls, config, uses, pool,
                   reporterVars>>

Connect(w) ==
    /\ pc[w] = "connect"
    /\ attempts' = [attempts EXCEPT ![w] = @ + 1]
    /\ UNCHANGED slept
    /\ \/ /\ handle' = [handle EXCEPT ![w] = nextConn]
          /\ connState' = [connState EXCEPT ![nextConn] = "stream"]
          /\ nextConn' = nextConn + 1
          /\ pc' = [pc EXCEPT ![w] = IF https THEN "tls" ELSE "handshake"]
          /\ UNCHANGED <<result, counterVars, callIncs>>
       \/ /\ Count(w, "Failure")
          /\ ReturnNone(w, Err("IoError"))
          /\ UNCHANGED nextConn
    /\ UNCHANGED <<chanVars, mpc, existing, calls, config, uses, pool,
                   reporterVars>>

\* client.rs:242-255 (tls, client.rs:78-87): the TLS handshake of an https URL
Tls(w) ==
    /\ pc[w] = "tls"
    /\ \/ /\ pc' = [pc EXCEPT ![w] = "handshake"]
          /\ UNCHANGED <<result, handle, connState, counterVars, callIncs>>
       \/ /\ Count(w, "Failure")
          /\ ReturnNone(w, Err("TlsError"))
    /\ UNCHANGED <<chanVars, mpc, existing, attempts, slept, calls, config,
                   uses, nextConn, pool, reporterVars>>

\* client.rs:258-264 (handshake_http1, client.rs:33-57)
HandshakeUncounted(w) ==
    /\ pc[w] = "handshake"
    /\ \/ /\ pc' = [pc EXCEPT ![w] = "send"]
          /\ connState' = [connState EXCEPT ![handle[w]] = "open"]
          /\ UNCHANGED <<result, handle, counterVars, callIncs>>
       \/ /\ ReturnNone(w, Err("HyperError"))
          /\ UNCHANGED <<counterVars, callIncs>>
    /\ UNCHANGED <<chanVars, mpc, existing, attempts, slept, calls, config,
                   uses, nextConn, pool, reporterVars>>

Handshake(w) ==
    /\ pc[w] = "handshake"
    /\ \/ /\ pc' = [pc EXCEPT ![w] = "send"]
          /\ connState' = [connState EXCEPT ![handle[w]] = "open"]
          /\ UNCHANGED <<result, handle, counterVars, callIncs>>
       \/ /\ Count(w, "Failure")
          /\ ReturnNone(w, Err("HyperError"))
    /\ UNCHANGED <<chanVars, mpc, existing, attempts, slept, calls, config,
                   uses, nextConn, pool, reporterVars>>

\* client.rs:267-284: the request is sent on the fresh handle
Send(w) ==
    /\ pc[w] = "send"
    /\ \/ \E status \in target :
            /\ Count(w, status_to_code_type(status))
            /\ result' = [result EXCEPT ![w] = Code(status_to_code_type(status))]
            /\ uses' = [uses EXCEPT ![handle[w]] = @ + 1]
            /\ pc' = [pc EXCEPT ![w] = "collect"]
            /\ UNCHANGED <<handle, connState>>
       \/ /\ Count(w, "Failure")
          /\ ReturnNone(w, Err("HyperError"))
          /\ UNCHANGED uses
    /\ UNCHANGED <<chanVars, mpc, existing, attempts, slept, calls, config,
                   nextConn, pool, reporterVars>>

CollectDropOnFailure(w) ==
    /\ pc[w] = "collect"
    /\ IF result[w] = Code("Failure")
       THEN /\ connState' = [connState EXCEPT ![handle[w]] = "dropped"]
            /\ handle' = [handle EXCEPT ![w] = NoConn]
       ELSE /\ \E drained \in BOOLEAN :
                  connState' = [connState EXCEPT ![handle[w]] =
                                  IF drained THEN "open" ELSE "undrained"]
            /\ UNCHANGED handle
    /\ pc' = [pc EXCEPT ![w] = "returned"]
    /\ UNCHANGED <<chanVars, mpc, existing, result, attempts, slept, callIncs,
                   calls, config, uses, nextConn, pool, counterVars,
                   reporterVars>>

\* client.rs:220-221, 273-278: `let _ = response.collect().await`, whose result
\* is ignored, then the handle is returned
Collect(w) ==
    /\ pc[w] = "collect"
    /\ \E drained \in BOOLEAN :
          connState' = [connState EXCEPT ![handle[w]] =
                          IF drained THEN "open" ELSE "undrained"]
    /\ pc' = [pc EXCEPT ![w] = "returned"]
    /\ UNCHANGED <<chanVars, mpc, handle, existing, result, attempts, slept, callIncs,
                   calls, config, uses, nextConn, pool, counterVars,
                   reporterVars>>

\* ----------------------------------------------------- send_single_request
\* a caller of send_single_request: between two cycles, with the handle it can
\* get, like the caller of send_request_with_reuse
WorkerAcquireSingle(w) ==
    /\ AtLoopTop(w)
    /\ ~HasChanged(wseen[w])
    /\ calls < budget
    /\ handle' = [handle EXCEPT ![w] = try_get]
    /\ existing' = [existing EXCEPT ![w] = try_get]
    /\ pool' = IF pool = <<>> THEN pool ELSE Tail(pool)
    /\ result' = [result EXCEPT ![w] = NoResult]
    /\ attempts' = [attempts EXCEPT ![w] = 0]
    /\ slept' = [slept EXCEPT ![w] = 0]
    /\ callIncs' = [callIncs EXCEPT ![w] = Zero]
    /\ calls' = calls + 1
    /\ pc' = [pc EXCEPT ![w] = "single"]
    /\ UNCHANGED <<chanVars, mpc, config, connState, uses, nextConn,
                   counterVars, reporterVars>>

\* send_single_request (client.rs:124-198), from its call to its return: the
\* arms of send_request_with_reuse without the drain; it returns no handle, so
\* the SendRequest it was given, or the one it made, is dropped
SendSingleRequest(w) ==
    /\ pc[w] = "single"
    /\ pc' = [pc EXCEPT ![w] = "returned"]
    /\ handle' = [handle EXCEPT ![w] = NoConn]
    /\ IF ~buildOk
       THEN \* client.rs:129-132
            /\ result' = [result EXCEPT ![w] = Err("HttpError")]
            /\ connState' = IF handle[w] = NoConn THEN connState
                            ELSE [connState EXCEPT ![handle[w]] = "dropped"]
            /\ UNCHANGED <<counterVars, callIncs, uses, nextConn, attempts>>
       ELSE IF handle[w] # NoConn
       THEN \* client.rs:135-149
            /\ connState' = [connState EXCEPT ![handle[w]] = "dropped"]
            /\ UNCHANGED <<nextConn, attempts>>
            /\ \/ \E status \in target :
                    /\ Count(w, status_to_code_type(status))
                    /\ result' = [result EXCEPT ![w] =
                                     Code(status_to_code_type(status))]
                    /\ uses' = [uses EXCEPT ![handle[w]] = @ + 1]
               \/ /\ Count(w, "Failure")
                  /\ result' = [result EXCEPT ![w] = Err("HyperError")]
                  /\ UNCHANGED uses
       ELSE \* client.rs:152-197
            /\ attempts' = [attempts EXCEPT ![w] = @ + 1]
            /\ \/ /\ Count(w, "Failure")
                  /\ result' = [result EXCEPT ![w] = Err("IoError")]
                  /\ UNCHANGED <<connState, nextConn, uses>>
               \/ /\ nextConn' = nextConn + 1
                  /\ connState' = [connState EXCEPT ![nextConn] = "dropped"]
                  /\ \/ /\ https
                        /\ Count(w, "Failure")
                        /\ result' = [result EXCEPT ![w] = Err("TlsError")]
                        /\ UNCHANGED uses
                     \/ /\ Count(w, "Failure")
                        /\ result' = [result EXCEPT ![w] = Err("HyperError")]
                        /\ UNCHANGED uses
                     \/ \E status \in target :
                          /\ Count(w, status_to_code_type(status))
                          /\ result' = [result EXCEPT ![w] =
                                           Code(status_to_code_type(status))]
                          /\ uses' = [uses EXCEPT ![nextConn] = @ + 1]
    /\ UNCHANGED <<chanVars, mpc, existing, calls, slept, config, pool,
                   reporterVars>>

\* ------------------------------------------------------------ counter_print
\* work_mode.rs:97: the sleep branch of select! is taken; the branch can win
\* only if the channel had not changed when this select! began
ReporterWake ==
    /\ Running
    /\ rpc = "select"
    /\ rsel = rseen
    /\ rpc' = "get"
    /\ ridx' = 1
    /\ UNCHANGED <<chanVars, mpc, workerVars, config, connVars,
                   counterVars, printed, rsel, snapshot>>

\* work_mode.rs:98-104: the five loads, in order, then the line is printed
ReporterGet ==
    /\ Running
    /\ rpc = "get"
    /\ LET c == ClassOrder[ridx]
           snap == [snapshot EXCEPT ![c] = get(counter, c)]
       IN IF ridx < Len(ClassOrder)
          THEN /\ snapshot' = snap
               /\ ridx' = ridx + 1
               /\ UNCHANGED <<printed, rpc>>
          ELSE /\ printed' = [k \in ClientResponseCodeType |-> printed[k] + snap[k]]
               /\ snapshot' = Zero
               /\ ridx' = 1
               /\ rpc' = "reset"
    /\ UNCHANGED <<chanVars, mpc, workerVars, config, connVars,
                   counterVars, rsel>>

\* work_mode.rs:105-109: the five stores of zero, in order; then the loop
\* starts the next select!
ReporterReset ==
    /\ Running
    /\ rpc = "reset"
    /\ counter' = reset(counter, ClassOrder[ridx])
    /\ sinceReset' = [sinceReset EXCEPT ![ClassOrder[ridx]] = 0]
    /\ IF ridx < Len(ClassOrder)
       THEN /\ ridx' = ridx + 1
            /\ UNCHANGED <<rpc, rsel>>
       ELSE /\ ridx' = 1
            /\ rpc' = "select"
            /\ rsel' = version
    /\ UNCHANGED <<chanVars, mpc, workerVars, config, connVars, incs,
                   printed, snapshot>>

\* work_mode.rs:111-113: shutdown_signal.changed() completes; break
ReporterObserveAndContinue ==
    /\ Running
    /\ rpc = "select"
    /\ HasChanged(rseen)
    /\ rseen' = version
    /\ rsel' = version
    /\ UNCHANGED <<latch, version, wseen, mseen, timer, sig, mpc, workerVars,
                   config, connVars, counterVars, printed, rpc, ridx,
                   snapshot>>

ReporterObserveShutdown ==
    /\ Running
    /\ rpc = "select"
    /\ HasChanged(rseen)
    /\ rseen' = version
    /\ rpc' = "exited"
    /\ UNCHANGED <<latch, version, wseen, mseen, timer, sig, mpc, workerVars,
                   config, connVars, counterVars, printed, ridx, rsel,
                   snapshot>>

\* ----------------------------------------------------------------- triggers
\* before_request.rs:105-111: the sleep is over, shutdown_tx.send(true)
TimerFire ==
    /\ Running
    /\ timer = "armed"
    /\ WatchSend(TRUE)
    /\ timer' = "fired"
    /\ UNCHANGED <<wseen, rseen, mseen, sig, mpc, workerVars, config,
                   connVars, counterVars, reporterVars>>

\* main.rs:138-151: a signal has arrived, shutdown_tx.send(true)
SignalFire ==
    /\ Running
    /\ sig = "waiting"
    /\ WatchSend(TRUE)
    /\ sig' = "fired"
    /\ UNCHANGED <<wseen, rseen, mseen, timer, mpc, workerVars, config,
                   connVars, counterVars, reporterVars>>

\* --------------------------------------------------------------------- main
\* main.rs:60: `prepare_work_instance(opts).await?`: an Err is returned from
\* main at once
PropagateIgnored(r) == "prepared"

Propagate(r) == IF r.tag = "Ok" THEN "prepared" ELSE "failed"

\* main.rs:60-61
MainPrepare ==
    /\ mpc = "start"
    /\ work' = prepare_work_instance(opts, env)
    /\ mpc' = Propagate(work')
    /\ UNCHANGED <<chanVars, workerVars, concurrent, budget, target, https,
                   buildOk, as_u16, code_type, opts, env, request, connVars,
                   counterVars, reporterVars>>

\* main.rs:62-72: the channel, then one task per worker
MainSpawnWorkers ==
    /\ mpc = "prepared"
    /\ pc' = [w \in Workers |-> "loop"]
    /\ mpc' = "spawn_reporter"
    /\ UNCHANGED <<chanVars, handle, existing, result, attempts, slept, callIncs,
                   calls, config, connVars, counterVars, reporterVars>>

\* main.rs:74-82
MainSpawnReporter ==
    /\ mpc = "spawn_reporter"
    /\ rpc' = "select"
    /\ mpc' = "spawn_signals"
    /\ UNCHANGED <<chanVars, workerVars, config, connVars, counterVars,
                   printed, ridx, rsel, snapshot>>

\* main.rs:85
MainSpawnSignals ==
    /\ mpc = "spawn_signals"
    /\ sig' = "waiting"
    /\ mpc' = "spawn_timer"
    /\ UNCHANGED <<latch, version, wseen, rseen, mseen, timer, workerVars,
                   config, connVars, counterVars, reporterVars>>

\* main.rs:87-95: the timer task is spawned if -t was given
MainSpawnTimer ==
    /\ mpc = "spawn_timer"
    /\ timer' \in {"armed", "none"}
    /\ mpc' = "spawned"
    /\ UNCHANGED <<latch, version, wseen, rseen, mseen, sig, workerVars,
                   config, connVars, counterVars, reporterVars>>

\* main.rs:98: shutdown_rx.clone(): a receiver that has seen what shutdown_rx
\* has, which never marks a version seen
MainSubscribe == version

MainClone == InitialVersion

MainWait ==
    /\ mpc = "spawned"
    /\ mseen' = MainClone
    /\ mpc' = "wait"
    /\ UNCHANGED <<latch, version, wseen, rseen, timer, sig, workerVars,
                   config, connVars, counterVars, reporterVars>>

\* main.rs:98-99: changed() completes
MainObserveShutdown ==
    /\ mpc = "wait"
    /\ HasChanged(mseen)
    /\ mseen' = version
    /\ mpc' = "join"
    /\ UNCHANGED <<latch, version, wseen, rseen, timer, sig, workerVars,
                   config, connVars, counterVars, reporterVars>>

\* main.rs:102: join_next() yields None once every worker task has finished
OneJoined == \E w \in Workers : pc[w] = "exited"

AllJoined == \A w \in Workers : pc[w] = "exited"

\* main.rs:102-105
MainJoin ==
    /\ mpc = "join"
    /\ AllJoined
    /\ mpc' = "done"
    /\ UNCHANGED <<chanVars, workerVars, config, connVars, counterVars,
                   reporterVars>>

\* -------------------------------------------------------- pure functions
\* client.rs:216-217, 269-270: the status of a response is classified
Classify ==
    /\ code_type = "none"
    /\ code_type' = status_to_code_type(as_u16)
    /\ UNCHANGED <<chanVars, mpc, workerVars, concurrent, budget, target,
                   https, buildOk, as_u16, opts, env, work, request,
                   connVars, counterVars, reporterVars>>

\* client.rs:207-210: build_request, applied to the prepared WorkInstance
BuildRequest ==
    /\ work.tag = "Ok"
    /\ request = NoRequest
    /\ request' = build_request(work)
    /\ UNCHANGED <<chanVars, mpc, workerVars, concurrent, budget, target,
                   https, buildOk, as_u16, code_type, opts, env, work,
                   connVars, counterVars, reporterVars>>

\* --------------------------------------------------------------------- Next
Next ==
    \/ \E w \in Workers : WorkerObserveShutdown(w)
    \/ \E w \in Workers : WorkerAcquire(w)
    \/ \E w \in Workers : WorkerRelease(w)
    \/ \E w \in Workers : Build(w)
    \/ \E w \in Workers : SendExisting(w)
    \/ \E w \in Workers : Connect(w)
    \/ \E w \in Workers : Tls(w)
    \/ \E w \in Workers : Handshake(w)
    \/ \E w \in Workers : Send(w)
    \/ \E w \in Workers : Collect(w)
    \/ ReporterWake
    \/ ReporterGet
    \/ ReporterReset
    \/ ReporterObserveShutdown
    \/ TimerFire
    \/ SignalFire
    \/ MainWait
    \/ MainObserveShutdown
    \/ MainJoin

Spec == Init /\ [][Next]_vars

\* one worker, no tick of the reporter
NextSolo ==
    \/ \E w \in Workers : WorkerObserveShutdown(w)
    \/ \E w \in Workers : WorkerAcquire(w)
    \/ \E w \in Workers : WorkerRelease(w)
    \/ \E w \in Workers : Build(w)
    \/ \E w \in Workers : SendExisting(w)
    \/ \E w \in Workers : Connect(w)
    \/ \E w \in Workers : Tls(w)
    \/ \E w \in Workers : Handshake(w)
    \/ \E w \in Workers : Send(w)
    \/ \E w \in Workers : Collect(w)
    \/ SignalFire

SpecSolo == InitSolo /\ [][NextSolo]_vars

\* one worker whose calls are of send_request_with_reuse or of
\* send_single_request
NextSingle ==
    \/ NextSolo
    \/ \E w \in Workers : WorkerAcquireSingle(w)
    \/ \E w \in Workers : SendSingleRequest(w)

SpecSingle == InitSolo /\ [][NextSingle]_vars

\* concurrent workers sharing the pool, no tick of the reporter
SpecPool == InitPool /\ [][NextSolo]_vars

\* concurrent workers and the reporter, before any trigger fires
NextCounter ==
    \/ \E w \in Workers : WorkerAcquire(w)
    \/ \E w \in Workers : WorkerRelease(w)
    \/ \E w \in Workers : Build(w)
    \/ \E w \in Workers : SendExisting(w)
    \/ \E w \in Workers : Connect(w)
    \/ \E w \in Workers : Tls(w)
    \/ \E w \in Workers : Handshake(w)
    \/ \E w \in Workers : Send(w)
    \/ \E w \in Workers : Collect(w)
    \/ ReporterWake
    \/ ReporterGet
    \/ ReporterReset

SpecCounter == InitConcurrent /\ [][NextCounter]_vars

\* concurrent workers, the triggers and main, between two ticks of the reporter
NextShutdown ==
    \/ \E w \in Workers : WorkerObserveShutdown(w)
    \/ \E w \in Workers : WorkerAcquire(w)
    \/ \E w \in Workers : WorkerRelease(w)
    \/ \E w \in Workers : Build(w)
    \/ \E w \in Workers : SendExisting(w)
    \/ \E w \in Workers : Connect(w)
    \/ \E w \in Workers : Tls(w)
    \/ \E w \in Workers : Handshake(w)
    \/ \E w \in Workers : Send(w)
    \/ \E w \in Workers : Collect(w)
    \/ ReporterObserveShutdown
    \/ TimerFire
    \/ SignalFire
    \/ MainWait
    \/ MainObserveShutdown
    \/ MainJoin

SpecShutdown == InitConcurrent /\ [][NextShutdown]_vars

\* every step of a worker's request_loop and of send_request_with_reuse
WorkerStep(w) ==
    \/ WorkerObserveShutdown(w)
    \/ WorkerAcquire(w)
    \/ WorkerRelease(w)
    \/ Build(w)
    \/ SendExisting(w)
    \/ Connect(w)
    \/ Tls(w)
    \/ Handshake(w)
    \/ Send(w)
    \/ Collect(w)

\* a step of a worker or of main
ProgramStep ==
    \/ \E w \in Workers : WorkerStep(w)
    \/ MainWait
    \/ MainObserveShutdown
    \/ MainJoin

\* the runtime polls a task that can make progress, and a network operation
\* ends (in success or in error): while a worker or main can take a step, one
\* of them does
FairShutdown == SpecShutdown /\ WF_vars(ProgramStep)

\* main from its command line to the point where every task is spawned
NextPrep ==
    \/ MainPrepare
    \/ MainSpawnWorkers
    \/ MainSpawnReporter
    \/ MainSpawnSignals
    \/ MainSpawnTimer

SpecPrep == InitPrep /\ [][NextPrep]_vars

\* prepare_work_instance, then build_request
NextBuild ==
    \/ MainPrepare
    \/ BuildRequest

SpecBuild == InitBuild /\ [][NextBuild]_vars

\* status_to_code_type on every u16
SpecClassify == InitClassify /\ [][Classify]_vars

\* a step of counter_print
ReporterStep ==
    \/ ReporterWake
    \/ ReporterGet
    \/ ReporterReset
    \/ ReporterObserveShutdown

\* the whole program on an https URL
SpecHttps == InitHttps /\ [][Next]_vars

\* the runtime polls the reporter task while it can make progress
FairReporter == SpecHttps /\ WF_vars(ReporterStep)

\* =================================================================== claims

\* C1: against a target that refuses every connection, one call of
\* send_request_with_reuse makes 10 connection attempts before it gives up, and
\* it increments the failure counter once and no other counter.
C1_TenAttemptsOneFailure ==
    \A w \in Workers :
        (pc[w] = "returned" /\ result[w] = Err("IoError"))
            => /\ attempts[w] = 10
               /\ callIncs[w] = [Zero EXCEPT !["Failure"] = 1]

\* C2: a connection has answered three requests with 200 and the fourth send
\* on it fails; when the call that met the failure has returned, request 4 has
\* been delivered on a new connection and the counters stand at 2xx = 4,
\* failure = 0.
\* The scenario: the fourth call has returned; it was given a connection that
\* had answered each of the three calls before it, with 200, and did not end
\* on that connection.
ReuseScenario(w) ==
    /\ pc[w] = "returned"
    /\ calls = 4
    /\ incs["Code2"] >= 3
    /\ existing[w] # NoConn
    /\ uses[existing[w]] = 3
    /\ handle[w] # existing[w]

C2_ReuseFailureRecovered ==
    \A w \in Workers :
        ReuseScenario(w)
            => /\ result[w] = Code("Code2")
               /\ incs["Code2"] = 4
               /\ incs["Failure"] = 0

\* C3: no increment is lost: between two ticks, what the reporter has printed
\* so far plus what the counter holds for the next tick equals the number of
\* increments the workers have performed, for every class.
C3_NoLostUpdate ==
    rpc = "select"
        => \A c \in ClientResponseCodeType : printed[c] + counter[c] = incs[c]

\* C4: the latch starts false, never goes from true to false, and a trigger
\* that fires when it is already true changes neither the latch, nor the
\* position of any task, nor whether the wait of a waiting task is ready.
TriggerFires == timer' # timer \/ sig' # sig

WaitsUnchanged ==
    /\ pc' = pc /\ rpc' = rpc /\ mpc' = mpc
    /\ \A w \in Workers :
          pc[w] = "loop" => ((wseen'[w] # version') <=> (wseen[w] # version))
    /\ rpc = "select" => ((rseen' # version') <=> (rseen # version))
    /\ mpc = "wait" => ((mseen' # version') <=> (mseen # version))

C4_LatchOneShot ==
    /\ latch = FALSE
    /\ [][/\ latch => latch'
          /\ (latch /\ TriggerFires) => (latch' /\ WaitsUnchanged)]_vars

C4_BothTriggersFired == latch /\ timer = "fired" /\ sig = "fired"

\* C5: once the latch is true, the wait-for-change of every task that is at
\* its wait (a worker between two cycles, the reporter in its select!, main at
\* main.rs:98) completes at once: the step that observes the change is enabled.
C5_WaitReturnsAtOnce ==
    (latch /\ Running)
        => /\ \A w \in Workers :
                 pc[w] = "loop" => ENABLED WorkerObserveShutdown(w)
           /\ rpc = "select" => ENABLED ReporterObserveShutdown
           /\ mpc = "wait" => ENABLED MainObserveShutdown

C5_WaitsAfterLatch ==
    /\ latch
    /\ mpc = "wait"
    /\ rpc = "select" /\ rsel # InitialVersion
    /\ \E w \in Workers : pc[w] = "loop" /\ calls > 0

\* C6: a worker that has observed the latch starts no further send attempt:
\* the step in which its receiver marks the change seen takes it out of its
\* loop, and once out it never takes another position.
C6_ObservedThenStops ==
    [][\A w \in Workers :
          /\ wseen'[w] # wseen[w] => pc'[w] = "exited"
          /\ pc[w] = "exited" => (pc'[w] = "exited" /\ calls' = calls)]_vars

C6_ExitedWithCallsLeft ==
    \E w \in Workers :
        /\ pc[w] = "exited"
        /\ calls > 0
        /\ calls < budget

\* C7: shutdown does not pre-empt: a worker inside a request cycle (request
\* build, connect, TLS, handshake, send, body drain) never leaves it for the
\* exit, latch or no latch; its next position is the next step of the cycle or
\* the return, and it returns with a result.
InFlight == {"build", "send_existing", "connect", "tls", "handshake", "send", "collect"}

C7_NotPreempted ==
    /\ [][\A w \in Workers :
             pc[w] \in InFlight => pc'[w] \in (InFlight \cup {"returned"})]_vars
    /\ [](\A w \in Workers : pc[w] = "returned" => result[w] # NoResult)

C7_InFlightAfterLatch ==
    /\ latch
    /\ mpc = "join"
    /\ \E w \in Workers : pc[w] = "collect"

C9_PoolBounded ==
    /\ [](Len(pool) <= PoolCapacity)
    /\ [](\A w \in Workers : pc[w] = "returned" => ENABLED WorkerRelease(w))
    /\ [][\A w \in Workers :
             (pc[w] = "returned" /\ pc'[w] = "loop" /\ handle[w] # NoConn /\ PoolFull)
                => (pool' = pool /\ connState'[handle[w]] = "dropped")]_vars

\* no send or connect has failed, so a handle can only have been closed by a
\* put on the full pool
C9_PutOnFullPool ==
    /\ incs["Failure"] = 0
    /\ Len(pool) = PoolCapacity
    /\ \E h \in Conns : connState[h] = "dropped" /\ uses[h] > 0

\* C10: no worker waits on the pool: a worker that may start a call can take
\* its acquisition step whatever the pool holds, and a call given no handle
\* goes on to a fresh connect.
C10_NeverWaitsOnPool ==
    /\ [](\A w \in Workers :
             (pc[w] = "loop" /\ ~HasChanged(wseen[w]) /\ calls < budget)
                => ENABLED WorkerAcquire(w))
    /\ [][\A w \in Workers :
             (pc[w] = "loop" /\ pc'[w] = "build" /\ pool = <<>>)
                => handle'[w] = NoConn]_vars
    /\ [][\A w \in Workers :
             (pc[w] = "build" /\ pc'[w] # "build" /\ handle[w] = NoConn /\ buildOk)
                => pc'[w] = "connect"]_vars

\* the pool is empty because another worker holds the only pooled handle, and
\* this worker connects afresh
C10_FreshConnectOnEmptyPool ==
    /\ pool = <<>>
    /\ \E w \in Workers, v \in Workers :
          /\ w # v
          /\ pc[w] = "connect"
          /\ existing[v] # NoConn /\ handle[v] = existing[v]

\* C11: every connection handle has one owner: an established handle that has
\* not been closed is held by exactly one worker or sits exactly once in the
\* pool, never both; a handle not yet established, or closed, has no owner.
Owners(h) ==
    Cardinality({w \in Workers : handle[w] = h})
        + Cardinality({i \in DOMAIN pool : pool[i] = h})

Live == {"stream", "open", "undrained"}

C11_OneOwner ==
    \A h \in Conns :
        /\ Owners(h) <= 1
        /\ connState[h] \in Live => Owners(h) = 1
        /\ connState[h] \notin Live => Owners(h) = 0

\* a worker holds a handle it took from the pool while another handle is idle
\* in the pool
C11_HandleChangedHands ==
    /\ pool # <<>>
    /\ \E w \in Workers :
          /\ handle[w] # NoConn
          /\ handle[w] = existing[w]
          /\ handle[w] # Head(pool)

\* C12: a call of send_request_with_reuse makes at most 10 attempts to send
\* (the one on the handle it was given, and one per connection it opens), and
\* it gives up, returning an error and no handle, when the 10th has failed.
Tries(w) == attempts[w] + IF existing[w] # NoConn THEN 1 ELSE 0

TransportErrors == {"IoError", "TlsError", "HyperError", "ConnectionClosed"}

C13_FailureDoesNotEndWorker ==
    /\ [][\A w \in Workers :
             /\ (pc[w] # "exited" /\ pc'[w] = "exited")
                   => (pc[w] = "loop" /\ latch)
             /\ pc[w] = "returned" => pc'[w] \in {"returned", "loop"}]_vars
    /\ [](\A w \in Workers :
             (pc[w] = "loop" /\ ~latch /\ calls < budget)
                => ENABLED WorkerAcquire(w))

\* two calls have failed and the worker is in its third
C13_ThirdCallAfterTwoFailures ==
    /\ ~latch
    /\ calls = 3
    /\ incs["Failure"] = 2
    /\ \E w \in Workers : pc[w] = "connect"

\* C14: for every 16-bit status code c the class is 2xx iff 200 <= c <= 299,
\* 3xx iff 300 <= c <= 399, 4xx iff 400 <= c <= 499, 5xx iff 500 <= c <= 599,
\* and failure iff c is in none of these ranges, under GET and under POST.
C14_Classification ==
    code_type # "none"
        => /\ code_type \in ClientResponseCodeType
           /\ code_type = "Code2" <=> (200 <= as_u16 /\ as_u16 <= 299)
           /\ code_type = "Code3" <=> (300 <= as_u16 /\ as_u16 <= 399)
           /\ code_type = "Code4" <=> (400 <= as_u16 /\ as_u16 <= 499)
           /\ code_type = "Code5" <=> (500 <= as_u16 /\ as_u16 <= 599)
           /\ code_type = "Failure" <=> (as_u16 < 200 \/ as_u16 > 599)

\* the last code of a class, in a POST run
C14_LastOf5xx ==
    /\ as_u16 = 599
    /\ code_type = "Code5"
    /\ work.mode = "Post"

\* C15: what a class holds is at most the number of increments made to it
\* since it was last reset, and the line a tick prints shows zero for every
\* class that has not been incremented since its last reset.
C15_ZeroAfterReset ==
    /\ [](\A c \in ClientResponseCodeType : counter[c] <= sinceReset[c])
    /\ [][(rpc = "get" /\ rpc' = "reset")
            => \A c \in ClientResponseCodeType :
                  sinceReset[c] = 0 => printed'[c] = printed[c]]_vars

\* a tick has just printed; 5xx had been incremented, printed and reset by an
\* earlier tick and not incremented since
C15_SecondTickPrintsZero ==
    /\ rpc = "reset"
    /\ ridx = 1
    /\ incs["Code5"] > 0
    /\ sinceReset["Code5"] = 0
    /\ printed["Code5"] = incs["Code5"]

\* C16: when preparation meets an error (a host that cannot be resolved, a
\* URL without a known port, an unsupported method, a POST with no body source
\* or with two, a header that does not parse) prepare_work_instance returns an
\* error, main returns that error, and no worker, reporter or trigger task is
\* ever started.
TasksStarted ==
    \/ \E w \in Workers : pc[w] # "unspawned"
    \/ rpc # "unspawned"
    \/ sig # "unspawned"
    \/ timer # "unspawned"

Unresolvable ==
    \/ opts.url_host = "Domain" /\ opts.ipv6 /\ env.dns6 = "Err"
    \/ opts.url_host = "Domain" /\ opts.ipv4 /\ env.dns4 = "Err"
          /\ (opts.ipv6 => env.dns6 # "Err")
    \/ opts.url_host = "Ipv4" /\ ~opts.ipv4
    \/ opts.url_host = "Ipv6" /\ ~opts.ipv6
    \/ /\ opts.host = "None"
       /\ \/ opts.url_host = "None"
          \/ /\ opts.url_host = "Domain"
             /\ opts.ipv6 => env.dns6 = "None"
             /\ opts.ipv4 => env.dns4 = "None"

BadHeader ==
    \E i \in DOMAIN opts.header :
        opts.header[i][1] = "X Id" \/ opts.header[i][2] = "\n"

PrepFault ==
    \/ Unresolvable
    \/ ~opts.url_port
    \/ opts.method \notin {"GET", "POST"}
    \/ opts.method = "POST"
          /\ ((opts.body_string = "None") <=> (opts.body_file = "None"))
    \/ BadHeader

C16_PrepErrorAborts ==
    /\ PrepFault => prepare_work_instance(opts, env).tag \in PrepErrors
    /\ prepare_work_instance(opts, env).tag \in PrepErrors
          => (~TasksStarted /\ mpc \in {"start", "failed"})
    /\ mpc = "failed" => work.tag \in PrepErrors

\* everything but the header list was accepted, and main has returned the error
C16_FailedOnHeader ==
    /\ mpc = "failed"
    /\ work.tag = "InvalidHeaderList"
    /\ ~TasksStarted

\* C18: preparation enforces the body rules: with everything else in order, a
\* POST is accepted iff exactly one of -d and -D is given, a GET is accepted
\* iff neither is given, and any other method is rejected.
OtherwiseFine ==
    /\ ~Unresolvable
    /\ opts.url_port
    /\ ~BadHeader
    /\ env.file # "Err"

ExactlyOneBody == (opts.body_string = "None") # (opts.body_file = "None")

NoBodySource == opts.body_string = "None" /\ opts.body_file = "None"

C18_BodyRules ==
    (mpc # "start" /\ OtherwiseFine)
        => /\ opts.method = "POST" => (work.tag = "Ok" <=> ExactlyOneBody)
           /\ opts.method = "GET" => (work.tag = "Ok" <=> NoBodySource)
           /\ opts.method \notin {"GET", "POST"}
                 => work.tag = "UnsupportedMethod"

\* C17: the request build_request returns carries a Host header and, when its
\* method is POST, one Content-Length header whose value is the byte length of
\* its body, whatever headers the caller listed.
C17_HostAndContentLength ==
    request.tag = "Ok"
        => /\ request.headers["host"] # <<>>
           /\ request.method = "POST"
                 => request.headers["content-length"]
                       = <<ToString(Len(request.body))>>

C20_ReusableOnlyIfDrained ==
    \A w \in Workers :
        (pc[w] = "returned" /\ handle[w] # NoConn)
            => connState[handle[w]] = "open"

\* C21: a connection is established in the order TCP connect, TLS handshake
\* iff the URL is https, HTTP/1.1 handshake, and only then is the request sent
\* on it; a step that fails ends the call with the error of that step (I/O,
\* TLS, protocol), the connection is dropped with no request sent on it, and
\* the call makes no second connection.
FailsWith(w, t) ==
    /\ pc'[w] = "returned"
    /\ result'[w] = Err(t)
    /\ handle'[w] = NoConn
    /\ uses' = uses
    /\ handle[w] # NoConn => connState'[handle[w]] = "dropped"

C21_ConnectorOrder ==
    /\ [][\A w \in Workers :
             /\ pc[w] = "connect"
                   => \/ pc'[w] = "connect"
                      \/ /\ pc'[w] = IF https THEN "tls" ELSE "handshake"
                         /\ handle'[w] # NoConn
                      \/ FailsWith(w, "IoError")
             /\ pc[w] = "tls"
                   => /\ https
                      /\ \/ pc'[w] = "tls"
                         \/ pc'[w] = "handshake" /\ handle'[w] = handle[w]
                         \/ FailsWith(w, "TlsError")
             /\ pc[w] = "handshake"
                   => \/ pc'[w] = "handshake"
                      \/ pc'[w] = "send" /\ handle'[w] = handle[w]
                      \/ FailsWith(w, "HyperError")
             /\ (pc'[w] = "send" /\ pc[w] # "send") => pc[w] = "handshake"
             /\ (pc'[w] = "handshake" /\ pc[w] # "handshake")
                   => pc[w] = IF https THEN "tls" ELSE "connect"
             /\ (pc'[w] = "tls" /\ pc[w] # "tls") => pc[w] = "connect"
             /\ (pc'[w] = "connect" /\ pc[w] # "connect")
                   => pc[w] = "build"]_vars
    /\ [](\A w \in Workers : attempts[w] <= 1)

\* the TLS handshake of the only connection of a call has failed
C21_TlsFailed ==
    /\ https
    /\ nextConn > 1
    /\ connState[nextConn - 1] = "dropped"
    /\ uses[nextConn - 1] = 0
    /\ \E w \in Workers :
          /\ pc[w] = "returned"
          /\ result[w] = Err("TlsError")
          /\ attempts[w] = 1

\* C22: a call in which every attempt fails sleeps 2^k milliseconds after its
\* k-th failed attempt, for k = 1..9, and not after its 10th: when it returns
\* it has slept 2^1 + ... + 2^9 = 1022 milliseconds.
RECURSIVE Pow2(_)
Pow2(k) == IF k = 0 THEN 1 ELSE 2 * Pow2(k - 1)

RECURSIVE SumPow2(_, _)
SumPow2(from, to) ==
    IF from > to THEN 0 ELSE Pow2(from) + SumPow2(from + 1, to)

C22_BackoffTotal ==
    /\ SumPow2(1, 9) = 1022
    /\ \A w \in Workers :
          (pc[w] = "returned" /\ result[w].tag \in TransportErrors)
             => slept[w] = SumPow2(1, 9)

Total(ctr) ==
    ctr["Code2"] + ctr["Code3"] + ctr["Code4"] + ctr["Code5"] + ctr["Failure"]

ClassOf(r) == IF r.tag = "Code" THEN r.code ELSE "Failure"

C24_OneCounterPerCall ==
    \A w \in Workers :
        /\ Total(callIncs[w]) <= 1
        /\ pc[w] = "returned"
              => /\ callIncs[w] =
                       IF result[w] = Err("HttpError") THEN Zero
                       ELSE [Zero EXCEPT ![ClassOf(result[w])] = 1]
                 /\ Total(counter) = IF buildOk THEN calls ELSE 0

\* a call of send_single_request on a handle an earlier call returned has
\* been answered
C24_SingleOnExisting ==
    \E w \in Workers :
        /\ pc[w] = "returned"
        /\ result[w].tag = "Code"
        /\ existing[w] # NoConn
        /\ handle[w] = NoConn
        /\ callIncs[w][result[w].code] = 1

\* C25: when send_request_with_reuse has returned, it has returned a handle
\* if and only if its result is a status class, the class failure of a status
\* outside 200..599 included; with any error result (request build, connection
\* closed, I/O, TLS, protocol) it has returned no handle.
ErrorResults ==
    {Err(t) : t \in {"HttpError", "ConnectionClosed", "IoError", "TlsError",
                     "HyperError"}}

C25_HandleIffCode ==
    \A w \in Workers :
        pc[w] = "returned"
           => /\ result[w] \in {Code(c) : c \in ClientResponseCodeType}
                                 \cup ErrorResults
              /\ handle[w] # NoConn <=> result[w].tag = "Code"
              /\ result[w] \in ErrorResults => handle[w] = NoConn

\* a call answered with a status outside 200..599 has returned its handle
C25_HandleWithFailureClass ==
    \E w \in Workers :
        /\ pc[w] = "returned"
        /\ result[w] = Code("Failure")
        /\ handle[w] # NoConn

====
